---- MODULE Spec2Model ----
(***************************************************************************)
(* Model of the useFinanceiro hook (src/unnamed/part_000): the ledger      *)
(* state `dados`, the load carregarDadosFinanceiros and the three          *)
(* mutations salvarTransacao / editarTransacao / excluirTransacao, each    *)
(* split at its await points, running against a store whose answers are    *)
(* nondeterministic.                                                       *)
(*                                                                         *)
(* Amounts are integers counting thousandths (10,50 is 10500); strings     *)
(* that are parsed are sequences of one-character strings; an instant is   *)
(* a record [dia, mes] of one fixed year and time of day.                  *)
(***************************************************************************)
EXTENDS Integers, Sequences, FiniteSets, TLC

\* number of calls of salvarTransacao, editarTransacao and excluirTransacao
\* in one behaviour
MaxCalls == 2

----------------------------------------------------------------------------
\* Values

\* the absent value of userId, cliente.plano, cliente.produto
NULL == "null"

\* parseFloat's not-a-number result
NaN == 0 - 1000000000

isNaN(x) == x = NaN

Digits == {"0", "1", "2", "3", "4", "5", "6", "7", "8", "9"}

DigitVal(c) ==
  CASE c = "0" -> 0 [] c = "1" -> 1 [] c = "2" -> 2 [] c = "3" -> 3
    [] c = "4" -> 4 [] c = "5" -> 5 [] c = "6" -> 6 [] c = "7" -> 7
    [] c = "8" -> 8 [] c = "9" -> 9

\* s.replace(/[R$\s]/g, ''): every R, $ and blank is removed
RECURSIVE StripMoeda(_)
StripMoeda(s) ==
  IF s = <<>> THEN <<>>
  ELSE IF Head(s) \in {"R", "$", " "} THEN StripMoeda(Tail(s))
       ELSE <<Head(s)>> \o StripMoeda(Tail(s))

\* s.replace(',', '.'): only the first comma is replaced
RECURSIVE ReplaceVirgula(_)
ReplaceVirgula(s) ==
  IF s = <<>> THEN <<>>
  ELSE IF Head(s) = "," THEN <<".">> \o Tail(s)
       ELSE <<Head(s)>> \o ReplaceVirgula(Tail(s))

\* the longest prefix of s made of digits
RECURSIVE DigitPrefix(_)
DigitPrefix(s) ==
  IF s = <<>> \/ Head(s) \notin Digits THEN <<>>
  ELSE <<Head(s)>> \o DigitPrefix(Tail(s))

RECURSIVE DigitsVal(_, _)
DigitsVal(s, acc) ==
  IF s = <<>> THEN acc ELSE DigitsVal(Tail(s), acc * 10 + DigitVal(Head(s)))

\* the fraction digits as thousandths (digits after the third are dropped)
FracVal(f) ==
  LET d(i) == IF i <= Len(f) THEN DigitVal(f[i]) ELSE 0
  IN  d(1) * 100 + d(2) * 10 + d(3)

\* parseFloat: optional sign, digits, optional point and digits; what
\* follows the number is ignored; no digit at all gives NaN
parseFloat(s) ==
  LET neg  == s # <<>> /\ Head(s) = "-"
      body == IF s # <<>> /\ Head(s) \in {"-", "+"} THEN Tail(s) ELSE s
      int  == DigitPrefix(body)
      rest == SubSeq(body, Len(int) + 1, Len(body))
      frac == IF rest # <<>> /\ Head(rest) = "." THEN DigitPrefix(Tail(rest)) ELSE <<>>
      mag  == DigitsVal(int, 0) * 1000 + FracVal(frac)
  IN  IF int = <<>> /\ frac = <<>> THEN NaN
      ELSE IF neg THEN 0 - mag ELSE mag

\* parseFloat(plano.valor.replace(/[R$\s]/g, '').replace(',', '.'))
ParseValor(valorStr) == parseFloat(ReplaceVirgula(StripMoeda(valorStr)))

\* parseFloat(transacao.valor) of a stored amount: a number, or null (NaN)
ParseValorCustom(v) == IF v = NaN THEN NaN ELSE v

----------------------------------------------------------------------------
\* Dates

\* the absent created_at of a customer
SemData == [dia |-> 0, mes |-> 0]

\* new Date(cliente.created_at || new Date()): an absent created_at gives the
\* instant of the call
NewDate(created_at, agora) == IF created_at = SemData THEN agora ELSE created_at

\* new Date(x).toLocaleString('pt-BR'): "dd/mm/yyyy, hh:mm:ss", of which dd
\* and mm vary
toLocaleString(ts) == <<ts.dia, ts.mes>>

\* new Date("dd/mm/yyyy, hh:mm:ss").getTime(): the first number is read as
\* the month, the second as the day; a month above 12 gives Invalid Date
getTime(data) == IF data[1] > 12 THEN NaN ELSE data[1] * 100 + data[2]

\* the comparator of the sort, (a, b) => getTime(b.data) - getTime(a.data);
\* a NaN result counts as 0
Compare(a, b) ==
  LET tb == getTime(b.data)
      ta == getTime(a.data)
  IN  IF isNaN(ta) \/ isNaN(tb) THEN 0 ELSE tb - ta

\* insertion of x into the sorted sequence s, after the elements it does not
\* precede
RECURSIVE InsertSorted(_, _)
InsertSorted(s, x) ==
  IF s = <<>> THEN <<x>>
  ELSE IF Compare(Head(s), x) <= 0 THEN <<Head(s)>> \o InsertSorted(Tail(s), x)
       ELSE <<x>> \o s

\* transacoes.sort(comparator): stable insertion sort
RECURSIVE SortTransacoes(_)
SortTransacoes(s) ==
  IF s = <<>> THEN <<>>
  ELSE InsertSorted(SortTransacoes(SubSeq(s, 1, Len(s) - 1)), s[Len(s)])
----------------------------------------------------------------------------
\* The records of the store that the hook only reads

Planos ==
  << [id |-> "p1", nome |-> "Basico", valor |-> <<"R", "$", " ", "1", "0", ",", "5", "0">>],
     [id |-> "p2", nome |-> "Teste",  valor |-> <<"R", "$", " ", "a", "b", "c">>] >>

Produtos ==
  << [id |-> "d1", nome |-> "Painel", valor |-> <<"4", ",", "0", "0">>],
     [id |-> "d2", nome |-> "Extra",  valor |-> <<"R", "$">>] >>

Clientes ==
  << [id |-> "c1", nome |-> "Ana", plano |-> "p1", produto |-> "d1",
      created_at |-> [dia |-> 2, mes |-> 1]],
     [id |-> "c2", nome |-> "Bia", plano |-> "p2", produto |-> NULL,
      created_at |-> [dia |-> 1, mes |-> 2]],
     [id |-> "c3", nome |-> "Caio", plano |-> "p9", produto |-> "d1",
      created_at |-> [dia |-> 1, mes |-> 3]] >>

\* new Map(rows.map(p => [p.id, p])): has / get by id, the last row of an id wins
MapHas(rows, id) == \E i \in 1..Len(rows) : rows[i].id = id

MapGet(rows, id) ==
  rows[CHOOSE i \in 1..Len(rows) :
         rows[i].id = id /\ \A j \in (i + 1)..Len(rows) : rows[j].id # id]

----------------------------------------------------------------------------
\* The aggregation of one load (lines 96-190)

MutEntradasDoCliente(cliente, planos, agora) ==
  IF cliente.plano # NULL /\ MapHas(planos, cliente.plano)
  THEN LET plano == MapGet(planos, cliente.plano)
           valorPlano == ParseValor(plano.valor)
       IN  << [id |-> "entrada-" \o cliente.id, cliente |-> cliente.nome,
               tipo |-> "entrada", valor |-> valorPlano,
               data |-> toLocaleString(NewDate(cliente.created_at, agora)),
               detalheTitulo |-> "Plano", detalheValor |-> plano.nome,
               isCustom |-> FALSE] >>
  ELSE <<>>

\* the entries one customer yields: its plan entry, then its product entry
EntradasDoCliente(cliente, planos, agora) ==
  IF cliente.plano # NULL /\ MapHas(planos, cliente.plano)
  THEN LET plano == MapGet(planos, cliente.plano)
           valorPlano == ParseValor(plano.valor)
       IN  IF ~isNaN(valorPlano)
           THEN << [id |-> "entrada-" \o cliente.id, cliente |-> cliente.nome,
                    tipo |-> "entrada", valor |-> valorPlano,
                    data |-> toLocaleString(NewDate(cliente.created_at, agora)),
                    detalheTitulo |-> "Plano", detalheValor |-> plano.nome,
                    isCustom |-> FALSE] >>
           ELSE <<>>
  ELSE <<>>

MutSaidasDoCliente(cliente, produtos, agora) ==
  IF cliente.produto # NULL /\ MapHas(produtos, cliente.produto)
  THEN LET produto == MapGet(produtos, cliente.produto)
           valorProduto == ParseValor(produto.valor)
       IN  IF ~isNaN(valorProduto)
           THEN << [id |-> "saida-" \o cliente.id, cliente |-> cliente.nome,
                    tipo |-> "entrada", valor |-> valorProduto,
                    data |-> toLocaleString(NewDate(cliente.created_at, agora)),
                    detalheTitulo |-> "Produto", detalheValor |-> produto.nome,
                    isCustom |-> FALSE] >>
           ELSE <<>>
  ELSE <<>>

SaidasDoCliente(cliente, produtos, agora) ==
  IF cliente.produto # NULL /\ MapHas(produtos, cliente.produto)
  THEN LET produto == MapGet(produtos, cliente.produto)
           valorProduto == ParseValor(produto.valor)
       IN  IF ~isNaN(valorProduto)
           THEN << [id |-> "saida-" \o cliente.id, cliente |-> cliente.nome,
                    tipo |-> "saida", valor |-> valorProduto,
                    data |-> toLocaleString(NewDate(cliente.created_at, agora)),
                    detalheTitulo |-> "Produto", detalheValor |-> produto.nome,
                    isCustom |-> FALSE] >>
           ELSE <<>>
  ELSE <<>>

\* clientes.forEach(...): the derived entries in push order
RECURSIVE Derivadas(_, _, _, _)
Derivadas(clientes, planos, produtos, agora) ==
  IF clientes = <<>> THEN <<>>
  ELSE EntradasDoCliente(Head(clientes), planos, agora)
       \o SaidasDoCliente(Head(clientes), produtos, agora)
       \o Derivadas(Tail(clientes), planos, produtos, agora)

\* linhas.slice(1).join(' ')
RECURSIVE Join(_)
Join(linhas) ==
  IF linhas = <<>> THEN ""
  ELSE IF Len(linhas) = 1 THEN Head(linhas)
       ELSE Head(linhas) \o " " \o Join(Tail(linhas))

\* the entry of one stored transaction; descricao is the sequence of its lines
EntradaCustom(transacao) ==
  LET valor == ParseValorCustom(transacao.valor)
      linhas == transacao.descricao
      cliente == IF linhas # <<>> /\ linhas[1] # "" THEN linhas[1]
                 ELSE "Transação customizada"
      resto == IF linhas = <<>> THEN "" ELSE Join(Tail(linhas))
      detalhe == IF resto # "" THEN resto ELSE "Sem detalhes"
  IN  IF ~isNaN(valor)
      THEN << [id |-> transacao.id, cliente |-> cliente, tipo |-> transacao.tipo,
               valor |-> valor, data |-> toLocaleString(transacao.created_at),
               detalheTitulo |-> "Customizada", detalheValor |-> detalhe,
               isCustom |-> TRUE, descricao |-> transacao.descricao] >>
      ELSE <<>>

\* transacoesCustomizadas.forEach(...)
RECURSIVE Customizadas(_)
Customizadas(rows) ==
  IF rows = <<>> THEN <<>>
  ELSE EntradaCustom(Head(rows)) \o Customizadas(Tail(rows))

\* totalEntradas: the sum of the pushed entries of tipo 'entrada'
RECURSIVE TotalEntradas(_)
TotalEntradas(entries) ==
  IF entries = <<>> THEN 0
  ELSE (IF Head(entries).tipo = "entrada" THEN Head(entries).valor ELSE 0)
       + TotalEntradas(Tail(entries))

\* totalSaidas: the sum of the other pushed entries
RECURSIVE TotalSaidas(_)
TotalSaidas(entries) ==
  IF entries = <<>> THEN 0
  ELSE (IF Head(entries).tipo # "entrada" THEN Head(entries).valor ELSE 0)
       + TotalSaidas(Tail(entries))

MutLucros(totalEntradas, totalSaidas) == totalEntradas + totalSaidas

Lucros(totalEntradas, totalSaidas) == totalEntradas - totalSaidas

\* the state a successful load that runs at the instant agora sets (lines
\* 96-190)
Agregar(clientes, planos, produtos, transacoesCustomizadas, agora) ==
  LET transacoes == Derivadas(clientes, planos, produtos, agora)
                    \o Customizadas(transacoesCustomizadas)
      totalEntradas == TotalEntradas(transacoes)
      totalSaidas == TotalSaidas(transacoes)
  IN  [entradas |-> totalEntradas,
       saidas |-> totalSaidas,
       lucros |-> Lucros(totalEntradas, totalSaidas),
       transacoes |-> SortTransacoes(transacoes),
       loading |-> FALSE,
       error |-> NULL]
----------------------------------------------------------------------------
\* Errors

NoError == [code |-> "", message |-> ""]

\* the error object of a store request; message names the request it answers
StoreError(code, req) == [code |-> code, message |-> req]

RelationMissing == "PGRST205"

OtherCode == "42501"

\* the failure of an update or delete whose id is that of no row
NoMatchingRow == "no matching row"

ErroNaoAutenticado == [code |-> "Error", message |-> "Usuário não autenticado"]

ErroTabela ==
  [code |-> "Error",
   message |-> "A tabela de transações não existe e não foi possível criá-la automaticamente. Contacte o suporte."]

ErroCarga == "Erro ao carregar dados financeiros"

----------------------------------------------------------------------------
\* State

VARIABLES
  userId,        \* useCurrentUser().userId
  dados,         \* the useState value: the emitted ledger
  tabelaExiste,  \* whether the relation transacoes exists in the store
  transacoesDb,  \* its rows, in insertion order
  proxId,        \* number of rows inserted so far
  calls,         \* per slot: the call of one of the hook's operations
  chamadas,      \* number of mutation calls made so far
  dadosFrescos,  \* history: the ledger was computed from the rows the store
                 \* holds now
  fontes         \* the rows of clientes, planos and produtos in the store

vars == <<userId, dados, tabelaExiste, transacoesDb, proxId, calls,
          chamadas, dadosFrescos, fontes>>

\* "efeito" runs the load of the effect of lines 47-51; "A" and "B" hold the
\* calls of the mutations: two of them can be in flight together
Slots == {"A", "B"}

Procs == {"efeito"} \cup Slots

\* the input of salvarTransacao
NovaSalvar ==
  [valor |-> 3000, tipo |-> "entrada", descricao |-> <<"Loja", "venda", "cartao">>]

\* the input of editarTransacao
NovaEditar == [valor |-> 1500, tipo |-> "saida", descricao |-> <<"">>]

\* the id of a derived entry: `entrada-${cliente.id}` (line 116)
AlvosDerivados == {"entrada-c1"}

\* the ids editarTransacao and excluirTransacao are called with: that of a
\* stored row and that of a derived entry
Alvos == {"t0"} \cup AlvosDerivados

\* the n-th instant of the clock; created_at of the n-th inserted row is
\* Relogio(n)
Relogio(n) == [dia |-> 6 + n, mes |-> 3]

LinhaInicial ==
  [id |-> "t0", valor |-> 2000, tipo |-> "saida", descricao |-> <<"Aluguel">>,
   created_at |-> [dia |-> 5, mes |-> 1]]

DadosIniciais ==
  [entradas |-> 0, saidas |-> 0, lucros |-> 0, transacoes |-> <<>>,
   loading |-> TRUE, error |-> NULL]

NovaVazia == [valor |-> 0, tipo |-> "", descricao |-> <<>>]

\* op, pc:   the operation called and the await it is suspended at
\* uid:      userId as the closure of the call captured it
\* erro1, erroProv, erro2: the errors of the first store request, of the
\*           provisioning and of the retried insert
\* nIns, nProv, nLoad: inserts issued, provisioning calls, calls of
\*           carregarDadosFinanceiros
\* txOk, txData: whether the select of transacoes gave rows, and the rows
\* cargaOk:  whether the load called last ended in its try block
\* fontesOk: whether its three source fetches gave no error
\* txFresca, sozinho: history: no store write since the rows were fetched;
\*           no other call was in flight during this one
\* outcome, thrown: how the promise settled
CallIdle ==
  [op |-> "none", pc |-> "idle", uid |-> NULL, nova |-> NovaVazia, alvo |-> "",
   erro1 |-> NoError, erroProv |-> NoError, erro2 |-> NoError,
   nIns |-> 0, nProv |-> 0, nLoad |-> 0,
   txOk |-> FALSE, txData |-> <<>>, cargaOk |-> FALSE, fontesOk |-> FALSE,
   txFresca |-> FALSE,
   sozinho |-> TRUE, outcome |-> "none", thrown |-> NoError]

Init ==
  /\ userId = NULL
  /\ dados = DadosIniciais
  /\ tabelaExiste \in BOOLEAN
  /\ transacoesDb = IF tabelaExiste THEN <<LinhaInicial>> ELSE <<>>
  /\ proxId = 0
  /\ calls = [p \in Procs |-> CallIdle]
  /\ chamadas = 0
  /\ dadosFrescos = FALSE
  /\ fontes = [clientes |-> Clientes, planos |-> Planos, produtos |-> Produtos]

\* new Date() in a load: the clock of the browser ticks with every call
Agora == Relogio(chamadas)

EmCurso(p) == calls[p].pc \notin {"idle", "done"}

\* a call takes the first slot that holds no call in flight
Livre(p) ==
  /\ p \in Slots
  /\ ~EmCurso(p)
  /\ chamadas < MaxCalls
  /\ p = "B" => EmCurso("A")

\* the record of a call that starts: its closure captures userId
NovaCall(op) ==
  [CallIdle EXCEPT !.op = op, !.uid = userId, !.outcome = "pending",
                   !.sozinho = \A q \in Procs : ~EmCurso(q)]

\* a call starts in slot p with record k: the calls in flight overlap it,
\* and the records of the calls that have settled are dropped
Comecar(p, k) ==
  [q \in Procs |-> IF q = p THEN k
                   ELSE IF EmCurso(q) THEN [calls[q] EXCEPT !.sozinho = FALSE]
                   ELSE IF q = "efeito" THEN calls[q]
                   ELSE CallIdle]

\* history: a store write makes the rows fetched before it stale
Envelhecer(cs) == [q \in Procs |-> [cs[q] EXCEPT !.txFresca = FALSE]]

\* the record a settled call leaves: the fetched rows are out of scope
Terminar(k, outcome, thrown) ==
  [k EXCEPT !.pc = "done", !.outcome = outcome, !.thrown = thrown,
            !.nova = NovaVazia, !.txOk = FALSE, !.txData = <<>>,
            !.txFresca = FALSE, !.sozinho = TRUE]

----------------------------------------------------------------------------
\* carregarDadosFinanceiros (lines 54-200)

\* setDados(prev => ({ ...prev, loading: true, error: null }))
IniciarCarga(prev) == [prev EXCEPT !.loading = TRUE, !.error = NULL]

MutCargaFalhouSemLoading(prev) == [prev EXCEPT !.error = ErroCarga]

MutCargaFalhou(prev) == [DadosIniciais EXCEPT !.loading = FALSE, !.error = ErroCarga]

\* setDados(prev => ({ ...prev, loading: false, error: '...' }))
CargaFalhou(prev) == [prev EXCEPT !.loading = FALSE, !.error = ErroCarga]

MutFimDeCargaAcumula(prev, fonteErro, fts, txData, agora) ==
  IF fonteErro # "" THEN CargaFalhou(prev)
  ELSE LET a == Agregar(fts.clientes, fts.planos, fts.produtos, txData, agora)
       IN  [a EXCEPT !.entradas = prev.entradas + a.entradas,
                     !.saidas = prev.saidas + a.saidas,
                     !.lucros = prev.lucros + a.lucros]

MutFimDeCarga(prev, fonteErro, fts, txData, agora) ==
  IF fonteErro # "" THEN CargaFalhou(prev)
  ELSE [Agregar(fts.clientes, fts.planos, fts.produtos, txData, agora)
          EXCEPT !.transacoes = prev.transacoes]

\* the state the end of a load sets: the catch block when one of the checks
\* of lines 80-82 throws, else the aggregation of the fetched rows fts and
\* txData
FimDeCarga(prev, fonteErro, fts, txData, agora) ==
  IF fonteErro # "" THEN CargaFalhou(prev)
  ELSE Agregar(fts.clientes, fts.planos, fts.produtos, txData, agora)

MutSemUsuario(uid) == FALSE

\* !userId (lines 56, 204)
SemUsuario(uid) == uid = NULL

\* slot p, whose record is k, calls carregarDadosFinanceiros in the calls cs:
\* without a user it returns at once and the await of the mutation resolves,
\* else it sets loading and awaits the three fetches
EntrarCarga(p, k, cs) ==
  IF SemUsuario(k.uid)
  THEN /\ calls' = [cs EXCEPT ![p] =
                      Terminar([k EXCEPT !.nLoad = @ + 1], "resolved", NoError)]
       /\ UNCHANGED dados
  ELSE /\ calls' = [cs EXCEPT ![p] = [k EXCEPT !.nLoad = @ + 1, !.pc = "fontes"]]
       /\ dados' = IniciarCarga(dados)

\* userId becomes present; the effect of lines 47-51 calls the load
Login ==
  /\ userId = NULL
  /\ userId' = "u1"
  /\ LET k == [NovaCall("load") EXCEPT !.uid = "u1", !.nLoad = 1, !.pc = "fontes"]
     IN  calls' = [q \in Procs |-> IF q = "efeito" THEN k
                                   ELSE IF EmCurso(q) THEN [calls[q] EXCEPT !.sozinho = FALSE]
                                   ELSE calls[q]]
  /\ dados' = IniciarCarga(dados)
  /\ UNCHANGED <<tabelaExiste, transacoesDb, proxId, chamadas, dadosFrescos>>
  /\ UNCHANGED fontes

FonteErros == {"", "clientes", "planos", "produtos"}

\* Promise.all of the three selects returns and the select of transacoes is
\* issued; the three results are read at lines 80-82 only
RetornoFontes(p) ==
  /\ calls[p].pc = "fontes"
  /\ calls' = [calls EXCEPT ![p].pc = "tx"]
  /\ UNCHANGED <<userId, dados, tabelaExiste, transacoesDb, proxId,
                 chamadas, dadosFrescos>>
  /\ UNCHANGED fontes

\* the answers the select of transacoes can give
RespostasTx == IF tabelaExiste THEN {"ok", "error", "throw"} ELSE {"error", "throw"}

\* the rows in the order of .order('created_at', { ascending: false }):
\* rows are inserted with increasing created_at
RECURSIVE Reverse(_)
Reverse(s) == IF s = <<>> THEN <<>> ELSE Reverse(Tail(s)) \o <<Head(s)>>

MutDadosTx(status, rows) ==
  IF status = "ok" /\ rows # <<>> THEN Tail(rows) ELSE <<>>

\* transacoesRes.data || [] for the answer of the select of transacoes: the
\* rows, or none for an error result (data null) and for a rejected request
\* (the catch of line 76 keeps { data: [] })
DadosTx(status, rows) == IF status = "ok" THEN rows ELSE <<>>

\* the store answers the select of transacoes with the rows it holds now, or
\* with an error
RetornoTx(p, status) ==
  /\ calls[p].pc = "tx"
  /\ status \in RespostasTx
  /\ calls' = [calls EXCEPT ![p].txOk = (status = "ok"),
                            ![p].txData = DadosTx(status, Reverse(transacoesDb)),
                            ![p].txFresca = (status = "ok"),
                            ![p].pc = "fim"]
  /\ UNCHANGED <<userId, dados, tabelaExiste, transacoesDb, proxId,
                 chamadas, dadosFrescos>>
  /\ UNCHANGED fontes

MutErroLancado(fonteErro, txOk) ==
  IF fonteErro # "" THEN fonteErro ELSE IF txOk THEN "" ELSE "transacoes"

\* what the checks of lines 80-82 throw: the error of the first of the three
\* source results that has one ("" when none has); the result of the select
\* of transacoes is not checked
ErroLancado(fonteErro, txOk) == fonteErro

MutResultadoDaCarga(fonteErro) == IF fonteErro # "" THEN "rejected" ELSE "resolved"

\* how the promise of carregarDadosFinanceiros settles: its catch (lines
\* 192-199) rethrows nothing
ResultadoDaCarga(fonteErro) == "resolved"

\* the rest of the load runs, lines 80-199: fonteErro is the first of the
\* three results that has an error ("" when none has). The load never
\* throws, and the promise of the mutation that awaits it resolves in the
\* same turn of the event loop (lines 254, 275, 292)
FimCarga(p, fonteErro) ==
  /\ calls[p].pc = "fim"
  /\ LET erro == ErroLancado(fonteErro, calls[p].txOk)
     IN  /\ dados' = FimDeCarga(dados, erro, fontes, calls[p].txData, Agora)
         /\ dadosFrescos' = IF erro = "" THEN calls[p].txFresca ELSE dadosFrescos
         /\ calls' = [calls EXCEPT ![p] =
                        Terminar([@ EXCEPT !.cargaOk = (erro = ""),
                                           !.fontesOk = (fonteErro = "")],
                                 ResultadoDaCarga(erro), NoError)]
  /\ UNCHANGED <<userId, tabelaExiste, transacoesDb, proxId, chamadas>>
  /\ UNCHANGED fontes

----------------------------------------------------------------------------
\* salvarTransacao (lines 202-259)

\* the answers an insert can give: success needs the relation; the relation
\* can be reported missing even when it exists (stale schema cache)
RespostasInsert ==
  IF tabelaExiste THEN {"ok", RelationMissing, OtherCode} ELSE {RelationMissing, OtherCode}

\* "t" followed by the decimal digits of n
IdDe(n) == "t" \o ToString(n)

\* the row the store makes of an insert
LinhaNova(nova) ==
  [id |-> IdDe(proxId + 1), valor |-> nova.valor, tipo |-> nova.tipo,
   descricao |-> nova.descricao, created_at |-> Relogio(proxId + 1)]

\* the store applies an insert
Inserir(nova) ==
  /\ transacoesDb' = Append(transacoesDb, LinhaNova(nova))
  /\ proxId' = proxId + 1
  /\ dadosFrescos' = FALSE

\* salvarTransacao(nova) is called: without a user it rejects at once
\* (line 204), else the first insert is issued
ChamarSalvar(p, nova) ==
  /\ Livre(p)
  /\ LET k == IF SemUsuario(userId)
              THEN Terminar(NovaCall("salvar"), "rejected", ErroNaoAutenticado)
              ELSE [NovaCall("salvar") EXCEPT !.nova = nova, !.pc = "insert1",
                                              !.nIns = 1]
     IN  calls' = Comecar(p, k)
  /\ chamadas' = chamadas + 1
  /\ UNCHANGED <<userId, dados, tabelaExiste, transacoesDb, proxId, dadosFrescos>>
  /\ UNCHANGED fontes

MutAposErro1(error) == IF error # NoError THEN "provision" ELSE "throw"

\* what the code does with the error of the first insert (lines 217-251):
\* "provision" for the relation-missing code, else "throw"
AposErro1(error) == IF error.code = RelationMissing THEN "provision" ELSE "throw"

\* the first insert returns (lines 207-254)
RetornoInsert1(p, resposta) ==
  /\ calls[p].pc = "insert1"
  /\ resposta \in RespostasInsert
  /\ IF resposta = "ok"
     THEN /\ Inserir(calls[p].nova)
          /\ EntrarCarga(p, calls[p], Envelhecer(calls))
          /\ UNCHANGED <<userId, tabelaExiste, chamadas>>
     ELSE LET error == StoreError(resposta, "insert1")
          IN  /\ calls' = [calls EXCEPT ![p] =
                   IF AposErro1(error) = "provision"
                   THEN [@ EXCEPT !.erro1 = error, !.pc = "provision", !.nProv = @ + 1]
                   ELSE Terminar([@ EXCEPT !.erro1 = error], "rejected", error)]
              /\ UNCHANGED <<userId, dados, tabelaExiste, transacoesDb, proxId,
                             chamadas, dadosFrescos>>
  /\ UNCHANGED fontes

MutErroDoCatch(createErr) == createErr

\* what the catch of line 245 throws for the error caught
ErroDoCatch(createErr) == ErroTabela

\* supabase.functions.invoke('create-transacoes') returns (lines 222-238)
RetornoProvision(p, ok) ==
  /\ calls[p].pc = "provision"
  /\ IF ok
     THEN /\ tabelaExiste' = TRUE
          /\ calls' = [calls EXCEPT ![p].pc = "insert2", ![p].nIns = @ + 1]
     ELSE LET createError == StoreError("FunctionsError", "create-transacoes")
          IN  /\ calls' = [calls EXCEPT ![p] =
                   Terminar([@ EXCEPT !.erroProv = createError], "rejected",
                            ErroDoCatch(createError))]
              /\ UNCHANGED tabelaExiste
  /\ UNCHANGED <<userId, dados, transacoesDb, proxId, chamadas, dadosFrescos>>
  /\ UNCHANGED fontes

MutAposErro2(insertError) ==
  IF insertError.code = RelationMissing THEN "provision" ELSE "throw"

\* where the code goes when the retried insert fails (lines 240-248): it
\* throws inside the try, never back to the provisioning
AposErro2(insertError) == "throw"

\* the retried insert returns (lines 231-254)
RetornoInsert2(p, resposta) ==
  /\ calls[p].pc = "insert2"
  /\ resposta \in RespostasInsert
  /\ IF resposta = "ok"
     THEN /\ Inserir(calls[p].nova)
          /\ EntrarCarga(p, calls[p], Envelhecer(calls))
          /\ UNCHANGED <<userId, tabelaExiste, chamadas>>
     ELSE LET insertError == StoreError(resposta, "insert2")
          IN  /\ calls' = [calls EXCEPT ![p] =
                   IF AposErro2(insertError) = "provision"
                   THEN [@ EXCEPT !.erro2 = insertError, !.pc = "provision",
                                  !.nProv = @ + 1]
                   ELSE Terminar([@ EXCEPT !.erro2 = insertError], "rejected",
                                 ErroDoCatch(insertError))]
              /\ UNCHANGED <<userId, dados, tabelaExiste, transacoesDb, proxId,
                             chamadas, dadosFrescos>>
  /\ UNCHANGED fontes

----------------------------------------------------------------------------
\* editarTransacao (lines 261-280) and excluirTransacao (lines 282-297)

\* the answers an update or a delete can give
RespostasEscrita == IF tabelaExiste THEN {"ok", OtherCode} ELSE {RelationMissing}

\* the answers an update or a delete of the row id can give: the store
\* fails the request whose id is the synthesized id of a derived entry
RespostasAoAlvo(id) ==
  IF id \in AlvosDerivados
  THEN (IF tabelaExiste THEN {NoMatchingRow, OtherCode} ELSE {RelationMissing})
  ELSE RespostasEscrita

ChamarEditar(p, id, nova) ==
  /\ Livre(p)
  /\ calls' = Comecar(p,
       [NovaCall("editar") EXCEPT !.nova = nova, !.alvo = id, !.pc = "update"])
  /\ chamadas' = chamadas + 1
  /\ UNCHANGED <<userId, dados, tabelaExiste, transacoesDb, proxId, dadosFrescos>>
  /\ UNCHANGED fontes

ChamarExcluir(p, id) ==
  /\ Livre(p)
  /\ calls' = Comecar(p,
       [NovaCall("excluir") EXCEPT !.alvo = id, !.pc = "delete"])
  /\ chamadas' = chamadas + 1
  /\ UNCHANGED <<userId, dados, tabelaExiste, transacoesDb, proxId, dadosFrescos>>
  /\ UNCHANGED fontes

\* .update({valor, tipo, descricao}).eq('id', id)
Atualizar(rows, id, nova) ==
  [i \in 1..Len(rows) |->
     IF rows[i].id = id
     THEN [rows[i] EXCEPT !.valor = nova.valor, !.tipo = nova.tipo,
                          !.descricao = nova.descricao]
     ELSE rows[i]]

\* .delete().eq('id', id)
RECURSIVE Remover(_, _)
Remover(rows, id) ==
  IF rows = <<>> THEN <<>>
  ELSE IF Head(rows).id = id THEN Remover(Tail(rows), id)
       ELSE <<Head(rows)>> \o Remover(Tail(rows), id)

MutErroDaEscrita(error) == ErroTabela

\* what editarTransacao and excluirTransacao throw for the error of the
\* store: throw error (lines 272, 289), thrown again by the catch (lines
\* 278, 295)
ErroDaEscrita(error) == error

MutRecarregaApos(error) == TRUE

\* whether the code goes on to the reload after the store write
\* (lines 272-275 and 289-292): if (error) throw error
RecarregaApos(error) == error = NoError

\* the update or the delete returns: on an error the call rejects with it,
\* else carregarDadosFinanceiros is called
RetornoEscrita(p, resposta) ==
  /\ calls[p].pc \in {"update", "delete"}
  /\ resposta \in RespostasAoAlvo(calls[p].alvo)
  /\ LET error == IF resposta = "ok" THEN NoError
                  ELSE StoreError(resposta, calls[p].pc)
         k == [calls[p] EXCEPT !.erro1 = error]
     IN  /\ IF resposta = "ok"
            THEN /\ transacoesDb' =
                      IF calls[p].pc = "update"
                      THEN Atualizar(transacoesDb, calls[p].alvo, calls[p].nova)
                      ELSE Remover(transacoesDb, calls[p].alvo)
                 /\ dadosFrescos' = FALSE
            ELSE UNCHANGED <<transacoesDb, dadosFrescos>>
         /\ IF RecarregaApos(error)
            THEN EntrarCarga(p, k, IF resposta = "ok" THEN Envelhecer(calls) ELSE calls)
            ELSE /\ calls' = [calls EXCEPT ![p] =
                                Terminar(k, "rejected", ErroDaEscrita(error))]
                 /\ UNCHANGED dados
  /\ UNCHANGED <<userId, tabelaExiste, proxId, chamadas>>
  /\ UNCHANGED fontes

----------------------------------------------------------------------------
Next ==
  \/ Login
  \/ \E p \in Procs : RetornoFontes(p)
  \/ \E p \in Procs, st \in {"ok", "error", "throw"} : RetornoTx(p, st)
  \/ \E p \in Procs, f \in FonteErros : FimCarga(p, f)
  \/ \E p \in Slots : ChamarSalvar(p, NovaSalvar)
  \/ \E p \in Slots, r \in {"ok", RelationMissing, OtherCode} : RetornoInsert1(p, r)
  \/ \E p \in Slots, ok \in BOOLEAN : RetornoProvision(p, ok)
  \/ \E p \in Slots, r \in {"ok", RelationMissing, OtherCode} : RetornoInsert2(p, r)
  \/ \E p \in Slots, id \in Alvos : ChamarEditar(p, id, NovaEditar)
  \/ \E p \in Slots, id \in Alvos : ChamarExcluir(p, id)
  \/ \E p \in Slots, r \in {"ok", RelationMissing, OtherCode, NoMatchingRow} :
       RetornoEscrita(p, r)

Spec == Init /\ [][Next]_vars

\* the steps that continue a load or a call of salvarTransacao of process p:
\* a request of p returns
Continuar(p) ==
  \/ RetornoFontes(p)
  \/ \E st \in {"ok", "error", "throw"} : RetornoTx(p, st)
  \/ \E f \in FonteErros : FimCarga(p, f)
  \/ \E r \in {"ok", RelationMissing, OtherCode} : RetornoInsert1(p, r)
  \/ \E ok \in BOOLEAN : RetornoProvision(p, ok)
  \/ \E r \in {"ok", RelationMissing, OtherCode} : RetornoInsert2(p, r)

\* the behaviours made of the effect's load and of calls of salvarTransacao
NextSalvar ==
  \/ Login
  \/ \E p \in Slots : ChamarSalvar(p, NovaSalvar)
  \/ \E p \in Procs : Continuar(p)

\* in them, every request of the store and of the provisioning returns
FairSpec ==
  Init /\ [][NextSalvar]_vars /\ \A p \in Procs : WF_vars(Continuar(p))

----------------------------------------------------------------------------
\* Loads over the rows a store can hold

\* number of customers, and of rows of transacoes, the store holds
MaxClientes == 2

MaxLinhas == 2

\* the customers the store can hold, without their ids
PoolClientes ==
  { [nome |-> "Ana",  plano |-> "p1", produto |-> "d1", created_at |-> [dia |-> 2, mes |-> 1]],
    [nome |-> "Bia",  plano |-> "p2", produto |-> "d1", created_at |-> [dia |-> 1, mes |-> 2]],
    [nome |-> "Caio", plano |-> "p1", produto |-> "d2", created_at |-> [dia |-> 1, mes |-> 2]],
    [nome |-> "Davi", plano |-> "p9", produto |-> NULL, created_at |-> [dia |-> 3, mes |-> 1]],
    [nome |-> "Eva",  plano |-> "p1", produto |-> NULL, created_at |-> SemData],
    [nome |-> "Fabi", plano |-> NULL, produto |-> "d1", created_at |-> [dia |-> 1, mes |-> 2]] }

\* the rows of transacoes the store can hold, without id and created_at;
\* valor can be null
PoolLinhas ==
  { [valor |-> 2000, tipo |-> "entrada", descricao |-> <<"Loja", "venda">>],
    [valor |-> 1500, tipo |-> "saida",   descricao |-> <<"">>],
    [valor |-> NaN,  tipo |-> "entrada", descricao |-> <<"Loja">>] }

\* the i-th customer of the store
ClienteDe(c, i) ==
  [id |-> "c" \o ToString(i), nome |-> c.nome, plano |-> c.plano,
   produto |-> c.produto, created_at |-> c.created_at]

\* the i-th inserted row of transacoes
LinhaDe(l, i) ==
  [id |-> IdDe(i), valor |-> l.valor, tipo |-> l.tipo, descricao |-> l.descricao,
   created_at |-> Relogio(i)]

\* a ledger emitted before the behaviour starts
DadosAnteriores ==
  [entradas |-> 9000, saidas |-> 1000, lucros |-> 8000,
   transacoes |-> << [id |-> "entrada-c9", cliente |-> "Gil", tipo |-> "entrada",
                      valor |-> 9000, data |-> <<4, 1>>, detalheTitulo |-> "Plano",
                      detalheValor |-> "Basico", isCustom |-> FALSE] >>,
   loading |-> FALSE, error |-> ErroCarga]

\* a user is present, the store holds any customers and rows, and the
\* ledger is the initial one or one left by earlier loads
AggInit ==
  /\ userId = "u1"
  /\ dados \in {DadosIniciais, DadosAnteriores}
  /\ tabelaExiste = TRUE
  /\ \E n \in 0..MaxLinhas : \E ls \in [1..n -> PoolLinhas] :
       /\ transacoesDb = [i \in 1..n |-> LinhaDe(ls[i], i)]
       /\ proxId = n
  /\ calls = [p \in Procs |-> CallIdle]
  /\ chamadas = 0
  /\ dadosFrescos = FALSE
  /\ \E n \in 0..MaxClientes : \E cs \in [1..n -> PoolClientes] :
       fontes = [clientes |-> [i \in 1..n |-> ClienteDe(cs[i], i)],
                 planos |-> Planos, produtos |-> Produtos]

\* userId changes to another user: the effect of lines 47-51 runs again and
\* calls the load
TrocarUsuario ==
  /\ userId # NULL
  /\ ~EmCurso("efeito")
  /\ chamadas < MaxCalls
  /\ userId' = IF userId = "u1" THEN "u2" ELSE "u1"
  /\ calls' = [calls EXCEPT !["efeito"] =
                 [NovaCall("load") EXCEPT !.uid = userId', !.nLoad = 1,
                                          !.pc = "fontes"]]
  /\ dados' = IniciarCarga(dados)
  /\ chamadas' = chamadas + 1
  /\ UNCHANGED <<tabelaExiste, transacoesDb, proxId, dadosFrescos, fontes>>

AggNext ==
  \/ TrocarUsuario
  \/ RetornoFontes("efeito")
  \/ \E st \in {"ok", "error", "throw"} : RetornoTx("efeito", st)
  \/ \E f \in FonteErros : FimCarga("efeito", f)

\* the behaviours made of loads, one at a time, over any stored rows
AggSpec == AggInit /\ [][AggNext]_vars

----------------------------------------------------------------------------
\* Properties

Salvou(p) == calls[p].op = "salvar"

\* the ledger a load with four successful fetches emits for the stored rows
LedgerDe(rows) ==
  Agregar(fontes.clientes, fontes.planos, fontes.produtos, Reverse(rows),
          Agora)

\* that ledger for the rows the store holds now
LedgerDoStore == LedgerDe(transacoesDb)

\* C1: in every reachable state the reported net profit (lucros) equals total
\* inflow (entradas) minus total outflow (saidas).
C1_LucrosIsEntradasMinusSaidas == dados.lucros = dados.entradas - dados.saidas

\* a loaded ledger with a derived and a custom entry and both totals positive
C1_Witness ==
  /\ ~dados.loading
  /\ dados.entradas > 0 /\ dados.saidas > 0 /\ dados.lucros # 0
  /\ \E i, j \in 1..Len(dados.transacoes) :
       dados.transacoes[i].isCustom /\ ~dados.transacoes[j].isCustom
  /\ \E p \in Slots : Salvou(p) /\ calls[p].outcome = "resolved"

\* C2: one call of salvarTransacao invokes the provisioning at most once and
\* attempts the insert at most twice; once the first insert has failed with
\* the relation-missing code and the provisioning has succeeded, exactly one
\* provisioning call and two inserts have been made; a relation-missing
\* failure of the retried insert ends the call without a second provisioning.
C2_OneShotRetry ==
  \A p \in Slots :
    /\ calls[p].nProv <= 1
    /\ calls[p].nIns <= 2
    /\ (Salvou(p) /\ calls[p].erro1.code = RelationMissing
        /\ calls[p].erroProv = NoError /\ calls[p].pc # "provision")
         => calls[p].nProv = 1 /\ calls[p].nIns = 2
    /\ calls[p].erro2.code = RelationMissing
         => calls[p].pc = "done" /\ calls[p].nProv = 1 /\ calls[p].nIns = 2

\* the retried insert of a call has failed with the relation-missing code
C2_Witness ==
  \E p \in Slots :
    /\ Salvou(p) /\ calls[p].pc = "done"
    /\ calls[p].erro1.code = RelationMissing
    /\ calls[p].erroProv = NoError
    /\ calls[p].erro2.code = RelationMissing

\* C3: when the first insert fails with the relation-missing code, the
\* provisioning succeeds and the retried insert fails, the call is rejected
\* with the retried insert's own error.
C3_RetryErrorUnchanged ==
  \A p \in Slots :
    (Salvou(p) /\ calls[p].pc = "done" /\ calls[p].erro1.code = RelationMissing
     /\ calls[p].erroProv = NoError /\ calls[p].erro2 # NoError)
      => calls[p].outcome = "rejected" /\ calls[p].thrown = calls[p].erro2

\* the first insert of the call in slot p returns an error of another kind
Erro1DeOutroTipo(p) ==
  /\ calls[p].pc = "insert1"
  /\ calls'[p].erro1 # NoError
  /\ calls'[p].erro1.code # RelationMissing

\* C4: when the first insert fails with a code other than relation-missing,
\* that step rejects the call with that same error and leaves the ledger as
\* it is; the call has made one insert, no provisioning call and no reload.
C4_OtherErrorSurfaced ==
  /\ [][\A p \in Slots : Erro1DeOutroTipo(p) =>
          /\ calls'[p].pc = "done"
          /\ calls'[p].outcome = "rejected"
          /\ calls'[p].thrown = calls'[p].erro1
          /\ calls'[p].thrown = StoreError(OtherCode, "insert1")
          /\ dados' = dados
          /\ transacoesDb' = transacoesDb]_vars
  /\ [](\A p \in Slots :
          (Salvou(p) /\ calls[p].erro1 # NoError
           /\ calls[p].erro1.code # RelationMissing)
            => /\ calls[p].pc = "done"
               /\ calls[p].nIns = 1 /\ calls[p].nProv = 0 /\ calls[p].nLoad = 0)

\* a call rejected with the other-kind error of its first insert, the ledger
\* being a loaded one with entries
C4_Witness ==
  \E p \in Slots :
    /\ Salvou(p) /\ calls[p].pc = "done"
    /\ calls[p].erro1.code = OtherCode
    /\ calls[p].outcome = "rejected"
    /\ dados.transacoes # <<>> /\ ~dados.loading

\* C5: when the first insert fails with the relation-missing code and the
\* provisioning fails, the call is rejected with the error saying that the
\* relation does not exist and could not be created; it has made one insert
\* and no reload.
C5_ProvisionFailure ==
  \A p \in Slots :
    (Salvou(p) /\ calls[p].erroProv # NoError)
      => /\ calls[p].erro1.code = RelationMissing
         /\ calls[p].pc = "done"
         /\ calls[p].outcome = "rejected"
         /\ calls[p].thrown = ErroTabela
         /\ calls[p].nIns = 1 /\ calls[p].nProv = 1 /\ calls[p].nLoad = 0

\* a call whose provisioning failed
C5_Witness ==
  \E p \in Slots :
    /\ Salvou(p) /\ calls[p].pc = "done"
    /\ calls[p].erro1.code = RelationMissing
    /\ calls[p].erroProv # NoError
    /\ calls[p].erro2 = NoError

\* an insert of the call in slot p has succeeded
InsertOk(p) ==
  \/ calls[p].nIns = 1 /\ calls[p].erro1 = NoError
  \/ calls[p].nIns = 2 /\ calls[p].erro2 = NoError

NaCarga(p) == calls[p].pc \in {"fontes", "tx", "fim"}

\* C6: when every request returns, a call of salvarTransacao settles, and
\* settles once (its record changes no more until a new call starts):
\* resolved exactly when its first or its retried insert succeeded, else
\* rejected; a call that resolves has run one reload, started after the
\* successful insert, and stays pending until that reload ends.
C6_SalvarTermina ==
  /\ \A p \in Slots : (Salvou(p) /\ EmCurso(p)) ~> (calls[p].pc = "done")
  /\ [](\A p \in Slots : (Salvou(p) /\ calls[p].pc = "done") =>
          /\ calls[p].outcome \in {"resolved", "rejected"}
          /\ calls[p].outcome = "resolved" <=> InsertOk(p)
          /\ calls[p].outcome = "resolved" => calls[p].nLoad = 1)
  /\ [](\A p \in Slots : (Salvou(p) /\ EmCurso(p)) =>
          /\ calls[p].outcome = "pending"
          /\ NaCarga(p) <=> calls[p].nLoad = 1
          /\ NaCarga(p) => InsertOk(p))
  /\ [][\A p \in Slots : (calls[p].pc = "done" /\ chamadas' = chamadas)
          => calls'[p] = calls[p]]_vars

\* a call resolved after its retried insert succeeded and its reload failed
C6_Witness ==
  \E p \in Slots :
    /\ Salvou(p) /\ calls[p].pc = "done" /\ calls[p].outcome = "resolved"
    /\ calls[p].nIns = 2 /\ calls[p].nLoad = 1
    /\ ~calls[p].cargaOk /\ dados.error = ErroCarga

EditouOuExcluiu(p) == calls[p].op \in {"editar", "excluir"}

\* C7 as stated: every run of editarTransacao and of excluirTransacao, the
\* runs where the store returns an error included, performs a reload after
\* the store call.
C7_ReloadRegardless ==
  \A p \in Slots :
    (EditouOuExcluiu(p) /\ calls[p].pc = "done") => calls[p].nLoad = 1

\* C7 amended: editarTransacao and excluirTransacao call the reload after the
\* store call exactly when the store returned no error; when it returned an
\* error the call is rejected with that error and no reload is called.
C7_ReloadOnlyAfterSuccess ==
  \A p \in Slots : EditouOuExcluiu(p) =>
    /\ calls[p].pc \in {"update", "delete"} => calls[p].nLoad = 0
    /\ NaCarga(p) => calls[p].erro1 = NoError /\ calls[p].nLoad = 1
    /\ calls[p].pc = "done" =>
         /\ calls[p].erro1 = NoError <=> calls[p].nLoad = 1
         /\ calls[p].erro1 # NoError <=> calls[p].nLoad = 0
         /\ calls[p].erro1 = NoError <=> calls[p].outcome = "resolved"
         /\ calls[p].erro1 # NoError =>
              calls[p].outcome = "rejected" /\ calls[p].thrown = calls[p].erro1

\* a call of an authenticated user rejected with the error of its store
\* call, without a reload
C7_Witness ==
  \E p \in Slots :
    /\ EditouOuExcluiu(p) /\ calls[p].pc = "done" /\ calls[p].uid # NULL
    /\ calls[p].erro1.code = OtherCode
    /\ calls[p].outcome = "rejected" /\ calls[p].nLoad = 0

\* the call in slot p resolves in this step
Resolve(p) ==
  /\ p \in Slots
  /\ EmCurso(p)
  /\ calls'[p].pc = "done"
  /\ calls'[p].outcome = "resolved"

Ids(entries) == {entries[i].id : i \in 1..Len(entries)}

\* the ledger shows the mutation of the call in slot p
Reflete(p) ==
  LET k == calls[p]
      es == dados'.transacoes
  IN  /\ k.op = "salvar" =>
           \E i \in 1..Len(es) :
             /\ es[i].id = IdDe(proxId') /\ es[i].isCustom
             /\ es[i].valor = k.nova.valor /\ es[i].tipo = k.nova.tipo
             /\ es[i].descricao = k.nova.descricao
      /\ k.op = "editar" =>
           /\ k.alvo \in Ids(transacoesDb') => k.alvo \in Ids(es)
           /\ \A i \in 1..Len(es) : es[i].id = k.alvo =>
                /\ es[i].valor = k.nova.valor /\ es[i].tipo = k.nova.tipo
                /\ es[i].descricao = k.nova.descricao
      /\ k.op = "excluir" => k.alvo \notin Ids(es)

\* C8 as stated, for a caller that is authenticated: whenever a mutation that
\* no other call or load overlapped resolves, the ledger is the aggregation
\* of the store's contents.
C8_ReadAfterWrite ==
  [][\A p \in Slots :
       (Resolve(p) /\ calls[p].sozinho /\ calls[p].uid # NULL)
         => dados' = LedgerDe(transacoesDb')]_vars

\* C8 amended: whenever a mutation that no other call or load overlapped
\* resolves, a user being authenticated and the four fetches of its reload
\* having succeeded, the ledger is the aggregation of the store's contents,
\* which include the mutation.
C8_ReadAfterWriteIfReloadOk ==
  [][\A p \in Slots :
       (Resolve(p) /\ calls[p].sozinho /\ calls[p].uid # NULL
        /\ calls'[p].cargaOk /\ calls[p].txOk)
         => dados' = LedgerDe(transacoesDb') /\ Reflete(p)]_vars

\* an edit made alone has resolved and the ledger shows the edited row
C8_Witness ==
  /\ calls["A"].op = "editar" /\ calls["A"].pc = "done"
  /\ calls["A"].outcome = "resolved" /\ calls["A"].cargaOk
  /\ calls["B"].pc = "idle" /\ calls["efeito"].pc = "done"
  /\ dados = LedgerDoStore
  /\ \E i \in 1..Len(dados.transacoes) :
       /\ dados.transacoes[i].id = calls["A"].alvo
       /\ dados.transacoes[i].valor = NovaEditar.valor

Quieto == \A p \in Procs : ~EmCurso(p)

\* C9: the totals and entries of the ledger differ from the aggregation of
\* the rows the store holds only when the load that wrote them fetched its
\* rows before a later write of the store (or no load has written them):
\* the race of two interleaved mutations is that case.
C9_StaleOnlyIfOlderSnapshot ==
  dadosFrescos =>
    /\ dados.entradas = LedgerDoStore.entradas
    /\ dados.saidas = LedgerDoStore.saidas
    /\ dados.lucros = LedgerDoStore.lucros
    /\ dados.transacoes = LedgerDoStore.transacoes

\* two overlapping mutations have both resolved, nothing is in flight, the
\* last load ended without error, and the ledger still lists a transaction
\* that the store no longer holds
C9_Witness ==
  /\ Quieto
  /\ \A p \in Slots : calls[p].pc = "done" /\ calls[p].outcome = "resolved"
                      /\ calls[p].cargaOk
  /\ ~dados.loading /\ dados.error = NULL
  /\ dados # LedgerDoStore
  /\ \E id \in Ids(dados.transacoes) :
       id \in {"t0", "t1", "t2", "t3"} /\ id \notin Ids(transacoesDb)

\* the load of process p ends in its catch block in this step
CargaFatal(p) ==
  /\ calls[p].pc = "fim"
  /\ calls'[p].pc = "done"
  /\ ~calls'[p].cargaOk

\* C10: the last step of a load one of whose three source fetches returned an
\* error leaves total inflow, total outflow, net profit and the entries as
\* they are, clears the loading flag and sets the generic error message,
\* whatever the select of transacoes returned; and the totals and entries
\* change in no step but the last step of a load without such an error, so a
\* fatal load does not change them before its end either.
C10_FatalLoadKeepsLedger ==
  /\ [][\A p \in Procs : CargaFatal(p) =>
          dados' = [dados EXCEPT !.loading = FALSE, !.error = ErroCarga]]_vars
  /\ [][(\/ dados'.entradas # dados.entradas
         \/ dados'.saidas # dados.saidas
         \/ dados'.lucros # dados.lucros
         \/ dados'.transacoes # dados.transacoes)
          => \E p \in Procs : calls[p].pc = "fim" /\ calls'[p].cargaOk]_vars

\* a load that followed a successful one has ended in its catch block: the
\* ledger keeps the earlier totals and entries
C10_Witness ==
  /\ \E p \in Procs :
       /\ calls[p].pc = "done" /\ calls[p].uid # NULL
       /\ calls[p].nLoad = 1 /\ ~calls[p].cargaOk
  /\ ~dados.loading /\ dados.error = ErroCarga
  /\ dados.transacoes # <<>> /\ dados.entradas > 0

\* the entries a load pushes for the customers alone
DerivadasDasFontes ==
  Derivadas(fontes.clientes, fontes.planos, fontes.produtos, Agora)

\* the load of process p ends in this step, its select of transacoes having
\* failed and its three source fetches having given no error
CargaSemTransacoes(p) ==
  /\ calls[p].pc = "fim"
  /\ ~calls[p].txOk
  /\ calls'[p].pc = "done"
  /\ calls'[p].fontesOk

\* C11: a load whose select of transacoes fails (rejected, or answered with
\* an error and no data) while the three source fetches succeed ends with
\* error null and loading false, and its totals and entries are exactly
\* those of the derived (plan and product) entries.
C11_TxFailureIsEmpty ==
  [][\A p \in Procs :
       CargaSemTransacoes(p) =>
         /\ calls'[p].cargaOk
         /\ dados'.error = NULL
         /\ ~dados'.loading
         /\ dados'.transacoes = SortTransacoes(DerivadasDasFontes)
         /\ dados'.entradas = TotalEntradas(DerivadasDasFontes)
         /\ dados'.saidas = TotalSaidas(DerivadasDasFontes)
         /\ dados'.lucros = dados'.entradas - dados'.saidas]_vars

\* no mutation was ever called and the store holds a row, yet the load of
\* the effect has ended without error and with derived entries only: its
\* select of transacoes failed
C11_Witness ==
  /\ calls["efeito"].pc = "done" /\ calls["efeito"].cargaOk
  /\ chamadas = 0 /\ tabelaExiste /\ transacoesDb # <<>>
  /\ dados.error = NULL /\ ~dados.loading
  /\ dados.transacoes # <<>>
  /\ \A i \in 1..Len(dados.transacoes) : ~dados.transacoes[i].isCustom
  /\ dados.entradas > 0 /\ dados.saidas > 0

----------------------------------------------------------------------------
\* Properties of the loads of AggSpec

\* the load called last has ended in its try block: dados is what it set
CargaOk == calls["efeito"].pc = "done" /\ calls["efeito"].cargaOk

\* the instant a display string "dd/mm/yyyy, hh:mm:ss" stands for
InstanteDe(data) == data[2] * 100 + data[1]

TodosComData ==
  \A i \in 1..Len(fontes.clientes) : fontes.clientes[i].created_at # SemData

\* C12: after a successful load (every customer having a creation
\* timestamp) the entries are in descending order of the creation instant of
\* their source records: an entry never precedes one created later.
C12_SortedByInstant ==
  (CargaOk /\ TodosComData) =>
    \A i, j \in 1..Len(dados.transacoes) :
      i < j => InstanteDe(dados.transacoes[i].data) >= InstanteDe(dados.transacoes[j].data)

RECURSIVE SomaSeq(_)
SomaSeq(s) == IF s = <<>> THEN 0 ELSE Head(s) + SomaSeq(Tail(s))

\* the parsed price of the plan (of the product) customer c refers to, NaN
\* when the reference is absent or does not resolve
PrecoPlano(c) ==
  IF c.plano # NULL /\ MapHas(fontes.planos, c.plano)
  THEN ParseValor(MapGet(fontes.planos, c.plano).valor) ELSE NaN

PrecoProduto(c) ==
  IF c.produto # NULL /\ MapHas(fontes.produtos, c.produto)
  THEN ParseValor(MapGet(fontes.produtos, c.produto).valor) ELSE NaN

\* the rows the load called last was answered with: those of the store, or
\* none when its select of transacoes failed
LinhasLidas == IF dadosFrescos THEN transacoesDb ELSE <<>>

OuZero(x) == IF isNaN(x) THEN 0 ELSE x

SomaPlanos ==
  SomaSeq([i \in 1..Len(fontes.clientes) |-> OuZero(PrecoPlano(fontes.clientes[i]))])

SomaProdutos ==
  SomaSeq([i \in 1..Len(fontes.clientes) |-> OuZero(PrecoProduto(fontes.clientes[i]))])

SomaLinhas(tipo) ==
  SomaSeq([i \in 1..Len(LinhasLidas) |->
             IF LinhasLidas[i].tipo = tipo THEN OuZero(LinhasLidas[i].valor) ELSE 0])

SomaListadas(tipo) ==
  SomaSeq([i \in 1..Len(dados.transacoes) |->
             IF dados.transacoes[i].tipo = tipo THEN dados.transacoes[i].valor ELSE 0])

\* number of listed entries whose id is id
Listadas(id) ==
  Cardinality({i \in 1..Len(dados.transacoes) : dados.transacoes[i].id = id})

\* C13: after a successful load, entradas is the sum of the parsed plan
\* prices of the customers whose plan resolves and parses plus the amounts
\* of the fetched inflow rows that parse, saidas is the same for products
\* and outflow rows, each total is the sum of the listed entries of its
\* direction, and each qualifying customer is listed exactly once per
\* direction.
C13_TotalsAreSums ==
  CargaOk =>
    /\ dados.entradas = SomaPlanos + SomaLinhas("entrada")
    /\ dados.saidas = SomaProdutos + SomaLinhas("saida")
    /\ dados.entradas = SomaListadas("entrada")
    /\ dados.saidas = SomaListadas("saida")
    /\ \A i \in 1..Len(fontes.clientes) :
         LET c == fontes.clientes[i]
         IN  /\ Listadas("entrada-" \o c.id) = IF isNaN(PrecoPlano(c)) THEN 0 ELSE 1
             /\ Listadas("saida-" \o c.id) = IF isNaN(PrecoProduto(c)) THEN 0 ELSE 1

\* two customers with a plan and a product each and an inflow and an
\* outflow row have been aggregated
C13_Witness ==
  /\ CargaOk /\ dadosFrescos
  /\ Len(fontes.clientes) = 2
  /\ \A i \in 1..2 : ~isNaN(PrecoPlano(fontes.clientes[i]))
                      /\ ~isNaN(PrecoProduto(fontes.clientes[i]))
  /\ SomaLinhas("entrada") > 0 /\ SomaLinhas("saida") > 0
  /\ dados.entradas = 23000 /\ dados.saidas = 9500
  /\ Len(dados.transacoes) = 6

\* C14: after a successful load every listed entry has a number as amount; a
\* customer is listed for its plan exactly when the plan resolves and its
\* price parses, and for its product exactly when the product resolves and
\* its price parses, each whatever the other does; a fetched row is listed
\* exactly when its amount parses; when nothing parses both totals are 0;
\* and the error message is null.
C14_UnparseableDropped ==
  CargaOk =>
    /\ \A i \in 1..Len(dados.transacoes) : ~isNaN(dados.transacoes[i].valor)
    /\ \A i \in 1..Len(fontes.clientes) :
         LET c == fontes.clientes[i]
         IN  /\ Listadas("entrada-" \o c.id) > 0 <=> ~isNaN(PrecoPlano(c))
             /\ Listadas("saida-" \o c.id) > 0 <=> ~isNaN(PrecoProduto(c))
    /\ \A i \in 1..Len(LinhasLidas) :
         Listadas(LinhasLidas[i].id) > 0 <=> ~isNaN(LinhasLidas[i].valor)
    /\ ((\A i \in 1..Len(fontes.clientes) :
            isNaN(PrecoPlano(fontes.clientes[i])) /\ isNaN(PrecoProduto(fontes.clientes[i])))
        /\ (\A i \in 1..Len(LinhasLidas) : isNaN(LinhasLidas[i].valor)))
         => dados.entradas = 0 /\ dados.saidas = 0 /\ dados.transacoes = <<>>
    /\ dados.error = NULL

\* a load has ended without error over a customer whose plan price does
\* not parse and whose product price does, a customer for whom it is the
\* other way round, and a row whose amount is null: the first is listed for
\* its product only, the second for its plan only, the row is not listed
C14_Witness ==
  /\ CargaOk /\ dadosFrescos /\ dados.error = NULL
  /\ Len(fontes.clientes) = 2
  /\ fontes.clientes[1].plano = "p2" /\ fontes.clientes[1].produto = "d1"
  /\ fontes.clientes[2].plano = "p1" /\ fontes.clientes[2].produto = "d2"
  /\ Listadas("entrada-c1") = 0 /\ Listadas("saida-c1") = 1
  /\ Listadas("entrada-c2") = 1 /\ Listadas("saida-c2") = 0
  /\ \E i \in 1..Len(transacoesDb) :
       isNaN(transacoesDb[i].valor) /\ Listadas(transacoesDb[i].id) = 0
  /\ dados.entradas = 10500 /\ dados.saidas = 4000

\* the ids of the entries the fetched records can yield
IdsDasFontes ==
  {"entrada-" \o fontes.clientes[i].id : i \in 1..Len(fontes.clientes)}
    \cup {"saida-" \o fontes.clientes[i].id : i \in 1..Len(fontes.clientes)}
    \cup {transacoesDb[i].id : i \in 1..Len(transacoesDb)}

\* the load of the effect ends in its try block in this step, its select of
\* transacoes having given rows
CargaCompleta ==
  /\ calls["efeito"].pc = "fim" /\ calls["efeito"].txOk
  /\ calls'["efeito"].pc = "done" /\ calls'["efeito"].cargaOk

\* C16: a successful load leaves nothing of the ledger emitted before it:
\* every listed entry comes from a record of the store; and when the ledger
\* is that of an earlier successful load over the same rows (every customer
\* having a creation timestamp), a successful load sets the same totals and
\* the same entry list again.
C16_NoStateBetweenLoads ==
  /\ [](CargaOk => \A i \in 1..Len(dados.transacoes) :
                      dados.transacoes[i].id \in IdsDasFontes)
  /\ [][(CargaCompleta /\ dadosFrescos /\ TodosComData) =>
          /\ dados'.entradas = dados.entradas
          /\ dados'.saidas = dados.saidas
          /\ dados'.lucros = dados.lucros
          /\ dados'.transacoes = dados.transacoes]_vars

\* the second of two successful loads has ended, with derived and custom
\* entries listed
C16_Witness ==
  /\ CargaOk /\ dadosFrescos /\ TodosComData /\ chamadas = 2
  /\ dados.entradas > 0 /\ dados.saidas > 0
  /\ \E i, j \in 1..Len(dados.transacoes) :
       dados.transacoes[i].isCustom /\ ~dados.transacoes[j].isCustom

----------------------------------------------------------------------------
\* Properties of the calls of Spec and FairSpec, continued

\* the store answers the update or delete of the call in slot p in this step
EscritaRetorna(p) ==
  /\ calls[p].pc \in {"update", "delete"}
  /\ calls'[p].pc # calls[p].pc

Listada(id, entries) == \E i \in 1..Len(entries) : entries[i].id = id

C17_WriteErrorSurfaced ==
  /\ [][\A p \in Slots :
          (EscritaRetorna(p) /\ calls'[p].erro1 # NoError) =>
            /\ calls'[p].pc = "done"
            /\ calls'[p].outcome = "rejected"
            /\ calls'[p].thrown = calls'[p].erro1
            /\ calls'[p].thrown.code \in {OtherCode, RelationMissing, NoMatchingRow}
            /\ calls'[p].thrown.message = calls[p].pc
            /\ calls'[p].nLoad = 0
            /\ dados' = dados]_vars
  /\ [][\A p \in Slots :
          (calls'[p].pc \in {"update", "delete"} /\ calls[p].pc \notin {"update", "delete"})
            => dados' = dados]_vars

\* editarTransacao of a stored row, called on a loaded ledger, has been
\* rejected with the error of the store
C17_Witness ==
  \E p \in Slots :
    /\ calls[p].op = "editar" /\ calls[p].alvo = "t0"
    /\ calls[p].pc = "done" /\ calls[p].outcome = "rejected"
    /\ calls[p].thrown = StoreError(OtherCode, "update")
    /\ ~dados.loading /\ dados.error = NULL /\ dados.transacoes # <<>>

\* C18 as stated, its last part: while a source fetch of a load has not
\* returned, the loading flag is true.
C18_HungLoadKeepsLoading ==
  \A p \in Procs : calls[p].pc = "fontes" => dados.loading

\* C18 amended: the step that starts a load sets loading true and error
\* null; when every request returns, every load ends; the step that ends a
\* load, in success or failure, sets loading false; and while a load that no
\* other call overlaps is in flight, loading is true.
C18_LoadingFlag ==
  /\ [][\A p \in Procs :
          (~NaCarga(p) /\ calls'[p].pc = "fontes")
            => dados'.loading /\ dados'.error = NULL]_vars
  /\ \A p \in Procs : NaCarga(p) ~> (calls[p].pc = "done")
  /\ [][\A p \in Procs :
          (calls[p].pc = "fim" /\ calls'[p].pc = "done") => ~dados'.loading]_vars
  /\ [](\A p \in Procs : (NaCarga(p) /\ calls[p].sozinho) => dados.loading)

\* the load of the effect has ended in failure and the reload of a call in
\* success, and loading is false
C18_Witness ==
  /\ calls["efeito"].pc = "done" /\ ~calls["efeito"].cargaOk
  /\ \E p \in Slots : calls[p].pc = "done" /\ calls[p].nLoad = 1 /\ calls[p].cargaOk
  /\ ~dados.loading /\ dados.error = NULL

\* a store request or the provisioning of the call in slot p has failed
FalhouEscrita(p) ==
  \/ calls[p].erro1 # NoError
  \/ calls[p].erroProv # NoError
  \/ calls[p].erro2 # NoError

\* the reload of the call in slot p ends in this step
FimDoReload(p) == calls[p].pc = "fim" /\ calls'[p].pc = "done"

\* C19 as stated: a call is rejected only when a store write of it or the
\* provisioning failed.
C19_RejectedOnlyOnWriteFailure ==
  \A p \in Slots :
    (calls[p].pc = "done" /\ calls[p].outcome = "rejected") => FalhouEscrita(p)

\* C19 amended: a call is rejected only when a store write of it or the
\* provisioning failed, or when it is salvarTransacao called without a user;
\* the end of its reload resolves it, and when that reload ends in failure
\* the ledger keeps its totals and entries, with loading false and the
\* load-failure message.
C19_ReloadFailureResolves ==
  /\ [](\A p \in Slots :
          (calls[p].pc = "done" /\ calls[p].outcome = "rejected") =>
            \/ FalhouEscrita(p)
            \/ Salvou(p) /\ calls[p].uid = NULL /\ calls[p].thrown = ErroNaoAutenticado)
  /\ [][\A p \in Slots :
          FimDoReload(p) =>
            /\ calls'[p].outcome = "resolved"
            /\ calls'[p].thrown = NoError
            /\ ~calls'[p].cargaOk =>
                 dados' = [dados EXCEPT !.loading = FALSE, !.error = ErroCarga]]_vars

\* excluirTransacao has deleted the stored row and resolved although its
\* reload failed: the ledger still lists the row, with the failure message
C19_Witness ==
  \E p \in Slots :
    /\ calls[p].op = "excluir" /\ calls[p].alvo = "t0"
    /\ calls[p].pc = "done" /\ calls[p].outcome = "resolved"
    /\ calls[p].nLoad = 1 /\ ~calls[p].cargaOk
    /\ transacoesDb = <<>>
    /\ Listada("t0", dados.transacoes)
    /\ ~dados.loading /\ dados.error = ErroCarga

\* C20: while userId is absent the ledger is the initial one, loading true;
\* a call of salvarTransacao made without a user is rejected at once with
\* the not-authenticated error, having issued no insert, no provisioning and
\* no reload; a call made without a user never awaits a fetch of a load,
\* and the load it calls after its update or delete changes nothing of the
\* ledger.
C20_NoUserNoEffect ==
  /\ [](userId = NULL => dados = DadosIniciais)
  /\ [](\A p \in Slots : (Salvou(p) /\ calls[p].uid = NULL) =>
          /\ calls[p].pc = "done"
          /\ calls[p].outcome = "rejected"
          /\ calls[p].thrown = ErroNaoAutenticado
          /\ calls[p].nIns = 0 /\ calls[p].nProv = 0 /\ calls[p].nLoad = 0)
  /\ [](\A p \in Procs : calls[p].uid = NULL => ~NaCarga(p))
  /\ [][\A p \in Slots :
          (calls[p].uid = NULL /\ EscritaRetorna(p)) => dados' = dados]_vars
  /\ [][\A p \in Slots :
          (calls'[p].op = "salvar" /\ calls'[p].uid = NULL /\ calls[p] # calls'[p])
            => UNCHANGED <<dados, transacoesDb, tabelaExiste, proxId>>]_vars

\* salvarTransacao has been rejected while no user is present
C20_Witness ==
  /\ userId = NULL
  /\ dados.loading /\ dados.transacoes = <<>>
  /\ \E p \in Slots :
       /\ Salvou(p) /\ calls[p].pc = "done" /\ calls[p].outcome = "rejected"
       /\ calls[p].thrown = ErroNaoAutenticado
       /\ calls[p].nIns = 0 /\ calls[p].nLoad = 0
====
